---- MODULE Spec2Model ----
(***************************************************************************)
(* A model of the inventory package: the tagged transactional store (db,   *)
(* transaction, cacheView), the key codec (mkKey / parseKey) and the typed *)
(* Collection layer (Load / Invalidate / Derive) built on it.              *)
(*                                                                         *)
(* Go strings are sequences of one-character strings.  A Go map is a       *)
(* function whose DOMAIN is the set of keys present; a map[string]struct{} *)
(* is the set of its keys (a nil inner map is the empty set).              *)
(***************************************************************************)
EXTENDS Integers, Sequences, FiniteSets, TLC

VARIABLES
    storage,    \* db.storage: the live snapshot [items, keyToTags, tagToKeys]
    t,          \* db.t: the reused transaction overlay [additions, deletions]
    last,       \* what the last completed call was and what it returned
    written,    \* per key: the value last written to it and not deleted since
    given,      \* per key: the tags given to it since it was last deleted
    filled,     \* per key: the value GetOrFill stored under it, not deleted since
    pc,         \* per goroutine: where it is in the call it is making
    job,        \* per goroutine: the call it is making and what it has got so far
    muW,        \* db.muW: the goroutine that holds it, or Free
    muR,        \* db.muR: the goroutine that holds it for writing, and its readers
    published,  \* the live snapshot as the last completed merge left it
    loaded,     \* the items yielded to the last reload whose merge has completed
    col         \* Collection.pk and Collection.keys: the indexes of the collection

vars == <<storage, t, last, written, given, filled, pc, job, muW, muR, published, loaded,
          col>>

\* what the calls of one caller at a time leave alone, and what the steps of
\* concurrent goroutines leave alone
conc == <<pc, job, muW, muR, published, loaded, col>>
seq == <<last, written, given, filled, col>>

----------------------------------------------------------------------------
(* Bounds of the model.                                                    *)

MaxOps == 2         \* writer calls made by one Update callback
MaxCalls == 2       \* GetOrFill calls made by one goroutine
NumVals == 2        \* distinct values a caller puts or a fill returns
MaxStr == 2         \* length of a kind, an attribute name or a value given to mkKey
MaxKey == 4         \* length of a string given to parseKey

----------------------------------------------------------------------------
(* Go maps.                                                                *)

EmptyMap == <<>>

MapSet(m, k, v) == [x \in (DOMAIN m) \cup {k} |-> IF x = k THEN v ELSE m[x]]

MapDel(m, k) == [x \in (DOMAIN m) \ {k} |-> m[x]]

MapDelAll(m, ks) == [x \in (DOMAIN m) \ ks |-> m[x]]

\* for k, v := range src { dst[k] = v }
MapCopy(dst, src) ==
    [x \in (DOMAIN dst) \cup (DOMAIN src) |-> IF x \in DOMAIN src THEN src[x] ELSE dst[x]]

\* m[k] of a map of sets: the zero value (a nil map) when k is absent
Lookup(m, k) == IF k \in DOMAIN m THEN m[k] ELSE {}

Nil == [type |-> "nil"]

RawVal(n) == [type |-> "raw", v |-> n]

----------------------------------------------------------------------------
(* storage and transaction                                                 *)

EmptyStorage == [tagToKeys |-> EmptyMap, keyToTags |-> EmptyMap, items |-> EmptyMap]

EmptyTransaction == [additions |-> EmptyStorage, deletions |-> EmptyStorage]

\* cacheView.Get
cacheViewGet(st, key) ==
    IF key \in DOMAIN st.items THEN <<st.items[key], TRUE>> ELSE <<Nil, FALSE>>

\* cacheView.Iter with a visitor that always proceeds: the keys visited.
cacheViewIter(st, tag) ==
    IF tag \notin DOMAIN st.tagToKeys THEN {} ELSE st.tagToKeys[tag]

\* transaction.Put
transactionPut(tx, key, val) ==
    [tx EXCEPT !.additions.items = MapSet(@, key, val)]

\* transaction.Tag, lines 845-853: materialise the key's tag set on first touch
TagKeyFirstTouch(tx, st, key) ==
    IF key \in DOMAIN tx.additions.keyToTags
    THEN tx
    ELSE [tx EXCEPT !.additions.keyToTags = MapSet(@, key, Lookup(st.keyToTags, key))]

\* a Tag that starts the added set of a tag empty instead of copying the
\* origin's
TagOneNoCopy(tx, st, key, tag) ==
    LET t2k == IF tag \in DOMAIN tx.additions.tagToKeys
               THEN tx.additions.tagToKeys
               ELSE MapSet(tx.additions.tagToKeys, tag, {})
        k2t == tx.additions.keyToTags
    IN  [tx EXCEPT !.additions.tagToKeys = MapSet(t2k, tag, t2k[tag] \cup {key}),
                   !.additions.keyToTags = MapSet(k2t, key, k2t[key] \cup {tag})]

\* transaction.Tag, the body of the loop over tags (lines 856-868)
TagOne(tx, st, key, tag) ==
    LET t2k == IF tag \in DOMAIN tx.additions.tagToKeys
               THEN tx.additions.tagToKeys
               ELSE MapSet(tx.additions.tagToKeys, tag, Lookup(st.tagToKeys, tag))
        k2t == tx.additions.keyToTags
    IN  [tx EXCEPT !.additions.tagToKeys = MapSet(t2k, tag, t2k[tag] \cup {key}),
                   !.additions.keyToTags = MapSet(k2t, key, k2t[key] \cup {tag})]

RECURSIVE TagLoop(_, _, _, _)
TagLoop(tx, st, key, tags) ==
    IF tags = <<>> THEN tx
    ELSE TagLoop(TagOne(tx, st, key, Head(tags)), st, key, Tail(tags))

\* transaction.Tag
transactionTag(tx, st, key, tags) == TagLoop(TagKeyFirstTouch(tx, st, key), st, key, tags)

\* transaction.Get.  For a key of the origin that the overlay has deleted, the
\* lookup in deletions (line 883) leaves ok true and the bare return of line
\* 887 returns it with val still nil.
transactionGet(tx, st, key) ==
    IF key \in DOMAIN tx.additions.items THEN <<tx.additions.items[key], TRUE>>
    ELSE IF key \notin DOMAIN st.items THEN <<Nil, FALSE>>
    ELSE IF key \notin DOMAIN tx.deletions.items THEN <<st.items[key], TRUE>>
    ELSE <<Nil, TRUE>>

\* transaction.Iter with a visitor that always proceeds: the keys visited, or a
\* panic.  keys is a nil map, so maps.Copy panics as soon as it has an entry to
\* copy into it (lines 896-902); the loop ranges over the added keys only, and
\* skips a key when ok, which tells that the tag has added keys, is true
\* (lines 904-907).
transactionIter(tx, st, tag) ==
    LET ok == tag \in DOMAIN tx.additions.tagToKeys
    IN  IF tag \in DOMAIN tx.deletions.tagToKeys THEN [panic |-> FALSE, keys |-> {}]
        ELSE IF Lookup(st.tagToKeys, tag) # {} THEN [panic |-> TRUE, keys |-> {}]
        ELSE IF ok /\ tx.additions.tagToKeys[tag] # {} THEN [panic |-> TRUE, keys |-> {}]
        ELSE [panic |-> FALSE,
              keys |-> {k \in Lookup(tx.additions.tagToKeys, tag) : ~ok}]

\* transaction.deleteKey, the tags the loop acts on: those not yet marked deleted
DeleteKeyTags(tx, st, key) ==
    LET tags == IF key \in DOMAIN tx.additions.keyToTags
                THEN tx.additions.keyToTags[key]
                ELSE Lookup(st.keyToTags, key)
    IN  {tag \in tags : tag \notin DOMAIN tx.deletions.tagToKeys}

\* a deleteKey that unbinds the key from its tags and leaves its value
deleteKeyKeepsItem(tx, st, key) ==
    LET live == DeleteKeyTags(tx, st, key)
        a    == tx.additions.tagToKeys
        d    == tx.deletions.tagToKeys
    IN  [tx EXCEPT
            !.additions.tagToKeys =
                [x \in DOMAIN a |-> IF x \in live THEN a[x] \ {key} ELSE a[x]],
            !.deletions.tagToKeys =
                [x \in (DOMAIN d) \cup live |-> IF x \in live THEN {} ELSE d[x]]]

\* transaction.deleteKey
deleteKey(tx, st, key) ==
    LET live == DeleteKeyTags(tx, st, key)
        a    == tx.additions.tagToKeys
        d    == tx.deletions.tagToKeys
    IN  [tx EXCEPT
            !.additions.items = MapDel(@, key),
            !.deletions.items = MapSet(@, key, Nil),
            !.additions.tagToKeys =
                [x \in DOMAIN a |-> IF x \in live THEN a[x] \ {key} ELSE a[x]],
            !.deletions.tagToKeys =
                [x \in (DOMAIN d) \cup live |-> IF x \in live THEN {} ELSE d[x]]]

\* append(deleted, k) unless slices.Contains(deleted, k)
AppendNew(deleted, k) ==
    IF \E i \in 1..Len(deleted) : deleted[i] = k THEN deleted ELSE Append(deleted, k)

\* The order in which `for k := range keys` visits the keys of a tag: Go leaves
\* it unspecified, so it is an input (ord, a sequence listing every key).
RangeOrder(keys, ord) == SelectSeq(ord, LAMBDA k : k \in keys)

\* cacheView.Iter with a visit that returns false on its stop-th call (never
\* when stop is 0), the range over the keys of the tag visiting them in the
\* order of ord: the keys visit was called with, in order
IterVisits(st, tag, ord, stop) ==
    LET ks == RangeOrder(cacheViewIter(st, tag), ord)
    IN  IF stop = 0 \/ stop > Len(ks) THEN ks ELSE SubSeq(ks, 1, stop)

\* transaction.Invalidate, lines 945-950: the loop over the keys of one tag
RECURSIVE DeleteKeys(_, _, _)
DeleteKeys(r, st, ks) ==
    IF ks = <<>> THEN r
    ELSE DeleteKeys([tx |-> deleteKey(r.tx, st, Head(ks)),
                     deleted |-> AppendNew(r.deleted, Head(ks))], st, Tail(ks))

\* an Invalidate that deletes and lists a tag whether or not it has a key set
InvalidateOneNoSkip(r, st, tag, ord) ==
    LET keys == IF tag \in DOMAIN r.tx.additions.tagToKeys
                THEN r.tx.additions.tagToKeys[tag]
                ELSE Lookup(st.tagToKeys, tag)
        tx1  == [r.tx EXCEPT !.additions.tagToKeys = MapDel(@, tag),
                             !.deletions.tagToKeys = MapSet(@, tag, {})]
        r2   == DeleteKeys([tx |-> tx1, deleted |-> r.deleted], st, RangeOrder(keys, ord))
    IN  [tx |-> deleteKey(r2.tx, st, tag), deleted |-> AppendNew(r2.deleted, tag)]

\* transaction.Invalidate, the body of the loop over tags (lines 929-955)
InvalidateOne(r, st, tag, ord) ==
    IF tag \in DOMAIN r.tx.deletions.tagToKeys THEN r
    ELSE IF tag \notin DOMAIN r.tx.additions.tagToKeys /\ tag \notin DOMAIN st.tagToKeys THEN r
    ELSE LET keys == IF tag \in DOMAIN r.tx.additions.tagToKeys
                     THEN r.tx.additions.tagToKeys[tag]
                     ELSE st.tagToKeys[tag]
             tx1  == [r.tx EXCEPT !.additions.tagToKeys = MapDel(@, tag),
                                  !.deletions.tagToKeys = MapSet(@, tag, {})]
             r2   == DeleteKeys([tx |-> tx1, deleted |-> r.deleted], st, RangeOrder(keys, ord))
         IN  [tx |-> deleteKey(r2.tx, st, tag), deleted |-> AppendNew(r2.deleted, tag)]

RECURSIVE InvalidateLoop(_, _, _, _)
InvalidateLoop(r, st, tags, ord) ==
    IF tags = <<>> THEN r
    ELSE InvalidateLoop(InvalidateOne(r, st, Head(tags), ord), st, Tail(tags), ord)

\* transaction.Invalidate: the overlay afterwards and the list it returns
transactionInvalidate(tx, st, tags, ord) ==
    InvalidateLoop([tx |-> tx, deleted |-> <<>>], st, tags, ord)

\* a merge that applies the additions before the deletions
MergeLoopsAdditionsFirst ==
    <<"add.items", "add.keyToTags", "add.tagToKeys",
      "del.items", "del.keyToTags", "del.tagToKeys">>

\* db.Update, lines 725-743: the six loops of the merge, in the order of the
\* code
MergeLoops ==
    <<"del.items", "del.keyToTags", "del.tagToKeys",
      "add.items", "add.keyToTags", "add.tagToKeys">>

\* one loop of the merge applied to the live snapshot
MergeLoop(st, tx, loop) ==
    IF loop = "del.items"
    THEN [st EXCEPT !.items = MapDelAll(@, DOMAIN tx.deletions.items)]
    ELSE IF loop = "del.keyToTags"
    THEN [st EXCEPT !.keyToTags = MapDelAll(@, DOMAIN tx.deletions.keyToTags)]
    ELSE IF loop = "del.tagToKeys"
    THEN [st EXCEPT !.tagToKeys = MapDelAll(@, DOMAIN tx.deletions.tagToKeys)]
    ELSE IF loop = "add.items"
    THEN [st EXCEPT !.items = MapCopy(@, tx.additions.items)]
    ELSE IF loop = "add.keyToTags"
    THEN [st EXCEPT !.keyToTags = MapCopy(@, tx.additions.keyToTags)]
    ELSE [st EXCEPT !.tagToKeys = MapCopy(@, tx.additions.tagToKeys)]

\* db.Update, lines 725-733: the deletions are applied to the live snapshot
MergeDeletions(st, tx) ==
    MergeLoop(MergeLoop(MergeLoop(st, tx, "del.items"), tx, "del.keyToTags"),
              tx, "del.tagToKeys")

\* db.Update, lines 735-743: the additions are applied to the live snapshot
MergeAdditions(st, tx) ==
    MergeLoop(MergeLoop(MergeLoop(st, tx, "add.items"), tx, "add.keyToTags"),
              tx, "add.tagToKeys")

\* a merge that does not look at what updateFn returned
MergeIgnoringError(st, tx, err) == MergeAdditions(MergeDeletions(st, tx), tx)

\* a merge that applies the additions before the deletions
MergeAdditionsFirst(st, tx, err) ==
    IF err THEN st ELSE MergeDeletions(MergeAdditions(st, tx), tx)

\* db.Update, lines 723-746: the merge, done only when updateFn returned nil
Merge(st, tx, err) ==
    IF err THEN st ELSE MergeAdditions(MergeDeletions(st, tx), tx)

----------------------------------------------------------------------------
(* The callers of the store.  An Update callback is the sequence of writer *)
(* calls it makes and whether it then returns an error.                    *)

KeyA == <<"a">>
KeyB == <<"b">>
TagX == <<"x">>
TagY == <<"y">>
TagZ == <<"z">>

Keys == {KeyA, KeyB}
Tags == {TagX, TagY}
WideTags == {TagX, TagY, TagZ}
Vals == {RawVal(n) : n \in 1..NumVals}

\* every order in which a range over a set of keys can visit them
Orders == {o \in [1..Cardinality(Keys) -> Keys] : \A i, j \in 1..Cardinality(Keys) : o[i] = o[j] => i = j}

\* the argument lists of a variadic call: one tag, or two different ones
TagLists(T) == {<<x>> : x \in T} \cup {p \in T \X T : p[1] # p[2]}

SeqToSet(q) == {q[i] : i \in 1..Len(q)}

\* the writer calls the callbacks of Update are made of: every value under one
\* key and one value under the other, one tag on both keys and another on one
\* of them, and the invalidation of the shared tag
PutOps ==
    {[op |-> "Put", key |-> KeyA, val |-> v] : v \in Vals}
    \cup {[op |-> "Put", key |-> KeyB, val |-> RawVal(1)]}
TagOps ==
    {[op |-> "Tag", key |-> k, tags |-> <<TagX>>] : k \in Keys}
    \cup {[op |-> "Tag", key |-> KeyA, tags |-> <<TagY>>]}
InvalidateOps == {[op |-> "Invalidate", tags |-> <<TagX>>, ord |-> o] : o \in Orders}
WriterOps == PutOps \cup TagOps \cup InvalidateOps

RECURSIVE SeqsUpTo(_, _)
SeqsUpTo(S, n) ==
    IF n = 0 THEN {<<>>}
    ELSE LET shorter == SeqsUpTo(S, n - 1)
         IN  shorter \cup {Append(q, x) : q \in {q \in shorter : Len(q) = n - 1}, x \in S}

Callbacks == SeqsUpTo(WriterOps, MaxOps)

\* What a fill function returns: a value, or (nil, error)
Fills == {[val |-> v, err |-> FALSE] : v \in Vals} \cup {[val |-> Nil, err |-> TRUE]}

\* One writer call of a callback, applied to the overlay r.tx against the live
\* snapshot st.  r.written follows what the callback has asked for: a Put
\* writes the key, and a key that Invalidate reports as deleted is unwritten.
ApplyOp(r, st, o) ==
    IF o.op = "Put" THEN
        [r EXCEPT !.tx = transactionPut(r.tx, o.key, o.val),
                  !.written = MapSet(@, o.key, o.val)]
    ELSE IF o.op = "Tag" THEN
        [r EXCEPT !.tx = transactionTag(r.tx, st, o.key, o.tags)]
    ELSE
        LET res == transactionInvalidate(r.tx, st, o.tags, o.ord)
        IN  [r EXCEPT !.tx = res.tx,
                      !.written = MapDelAll(@, SeqToSet(res.deleted)),
                      !.deleted = res.deleted]

RECURSIVE RunOps(_, _, _)
RunOps(r, st, ops) ==
    IF ops = <<>> THEN r ELSE RunOps(ApplyOp(r, st, Head(ops)), st, Tail(ops))

\* the tags each key has been given since Invalidate last reported it deleted,
\* after a callback that makes the calls ops on the overlay r.tx
RECURSIVE GivenOps(_, _, _, _)
GivenOps(g, r, st, ops) ==
    IF ops = <<>> THEN g
    ELSE LET o  == Head(ops)
             r2 == ApplyOp(r, st, o)
             g2 == IF o.op = "Tag"
                   THEN MapSet(g, o.key, Lookup(g, o.key) \cup SeqToSet(o.tags))
                   ELSE IF o.op = "Invalidate"
                   THEN MapDelAll(g, SeqToSet(r2.deleted))
                   ELSE g
         IN  GivenOps(g2, r2, st, Tail(ops))

\* updateFn(&c.t) of db.Update for a callback that makes the calls ops
RunCallback(ops) ==
    RunOps([tx |-> t, written |-> written, deleted |-> <<>>], storage, ops)

\* an Update that returns without clearing the overlay
ClearTransactionKeepsOverlay(tx) == tx

\* db.Update, lines 748-753: the overlay is cleared, not reallocated
ClearTransaction(tx) == EmptyTransaction

NoCall == [op |-> "none", key |-> <<>>, tags |-> <<>>, val |-> Nil, err |-> FALSE,
           called |-> FALSE, fillErr |-> FALSE, deleted |-> <<>>, dirty |-> FALSE]

\* db.Update with a callback that makes the calls ops and returns err
dbUpdate(ops, err, call) ==
    LET r == RunCallback(ops)
    IN  /\ storage' = Merge(storage, r.tx, err)
        /\ t' = ClearTransaction(r.tx)
        /\ written' = (IF err THEN written ELSE r.written)
        /\ last' = IF call.op = "Invalidate" THEN [call EXCEPT !.deleted = r.deleted]
                   ELSE IF call.op = "Update"
                        THEN [call EXCEPT !.err = err, !.dirty = (r.tx # EmptyTransaction)]
                   ELSE call

\* db.Put
DbPut(key, val) ==
    dbUpdate(<<[op |-> "Put", key |-> key, val |-> val]>>, FALSE,
             [NoCall EXCEPT !.op = "Put"])

\* db.Tag
DbTag(key, tags) ==
    dbUpdate(<<[op |-> "Tag", key |-> key, tags |-> tags]>>, FALSE,
             [NoCall EXCEPT !.op = "Tag"])

\* db.Invalidate
DbInvalidate(tags, ord) ==
    dbUpdate(<<[op |-> "Invalidate", tags |-> tags, ord |-> ord]>>, FALSE,
             [NoCall EXCEPT !.op = "Invalidate", !.tags = tags])

\* db.Update called directly, with any callback
DbUpdate(ops, err) ==
    dbUpdate(ops, err, [NoCall EXCEPT !.op = "Update"])

\* db.Update with a callback that makes the calls pre, then tags key with
\* tags, and returns nil; last keeps the key, the tags and what pre deleted
DbUpdateTagging(pre, key, tags) ==
    dbUpdate(Append(pre, [op |-> "Tag", key |-> key, tags |-> tags]), FALSE,
             [NoCall EXCEPT !.op = "Update", !.key = key, !.tags = tags,
                            !.deleted = RunCallback(pre).deleted])

\* a callback that stores what a failed fill returned and returns nil
GetOrFillCallbackStoresOnError(tx, st, key, fill, tags) ==
    LET g == transactionGet(tx, st, key)
    IN  IF g[2]
        THEN [tx |-> tx, val |-> g[1], err |-> FALSE, called |-> FALSE, stored |-> FALSE]
        ELSE [tx |-> transactionTag(transactionPut(tx, key, fill.val), st, key, tags),
              val |-> fill.val, err |-> FALSE, called |-> TRUE, stored |-> TRUE]

\* a callback that fills without looking for the key again
GetOrFillCallbackNoRecheck(tx, st, key, fill, tags) ==
    IF fill.err
    THEN [tx |-> tx, val |-> fill.val, err |-> TRUE, called |-> TRUE, stored |-> FALSE]
    ELSE [tx |-> transactionTag(transactionPut(tx, key, fill.val), st, key, tags),
          val |-> fill.val, err |-> FALSE, called |-> TRUE, stored |-> TRUE]

\* db.GetOrFill, lines 792-808: the callback it hands to Update
GetOrFillCallback(tx, st, key, fill, tags) ==
    LET g == transactionGet(tx, st, key)
    IN  IF g[2]
        THEN [tx |-> tx, val |-> g[1], err |-> FALSE, called |-> FALSE, stored |-> FALSE]
        ELSE IF fill.err
        THEN [tx |-> tx, val |-> fill.val, err |-> TRUE, called |-> TRUE, stored |-> FALSE]
        ELSE [tx |-> transactionTag(transactionPut(tx, key, fill.val), st, key, tags),
              val |-> fill.val, err |-> FALSE, called |-> TRUE, stored |-> TRUE]

\* a fast path whose value is lost to a shadowed variable
GetOrFillFastPathShadowed(st, key) == <<Nil, cacheViewGet(st, key)[2]>>

\* db.GetOrFill, lines 787-790: the fast path answers when the key is present
GetOrFillFastPath(st, key) == cacheViewGet(st, key)

\* db.GetOrFill, reported as the call `call`
dbGetOrFill(key, fill, tags, call) ==
    LET fast == GetOrFillFastPath(storage, key)
        r    == GetOrFillCallback(t, storage, key, fill, tags)
    IN  IF fast[2]
        THEN /\ last' = [call EXCEPT !.val = fast[1]]
             /\ UNCHANGED <<storage, t, written>>
        ELSE /\ storage' = Merge(storage, r.tx, r.err)
             /\ t' = ClearTransaction(r.tx)
             /\ written' = (IF r.stored THEN MapSet(written, key, r.val) ELSE written)
             /\ last' = [call EXCEPT !.val = r.val, !.err = r.err, !.called = r.called,
                                     !.fillErr = (r.called /\ fill.err)]

\* db.GetOrFill called directly
DbGetOrFill(key, fill, tags) ==
    dbGetOrFill(key, fill, tags, [NoCall EXCEPT !.op = "GetOrFill", !.key = key])

----------------------------------------------------------------------------
(* The key codec                                                           *)

curlyStart == "{"
curlyEnd == "}"
colon == ":"

\* writeKey
writeKey(dst, kind, key, val) ==
    dst \o kind \o <<curlyStart>> \o key \o <<colon>> \o val \o <<curlyEnd>>

\* a mkKey whose pooled buffer was put back without being reset
mkKeyUnresetBuffer(kind, key, val) == writeKey(<<"a">>, kind, key, val)

\* mkKey: the pooled buffer is empty when taken and reset before it is put back
mkKey(kind, key, val) == writeKey(<<>>, kind, key, val)

\* strings.IndexByte, counting from 1; 0 when c does not occur in s
IndexByte(s, c) ==
    IF \E i \in 1..Len(s) : s[i] = c
    THEN CHOOSE i \in 1..Len(s) : s[i] = c /\ \A j \in 1..(i - 1) : s[j] # c
    ELSE 0

\* parseKey.  A slice expression whose low bound exceeds its high bound panics.
parseKey(key) ==
    LET endOfKind   == IndexByte(key, curlyStart)
        endOfKey    == IndexByte(key, colon)
        endOfKeyVal == IndexByte(key, curlyEnd)
        none        == [kind |-> <<>>, k |-> <<>>, v |-> <<>>, ok |-> FALSE, panic |-> FALSE]
        kind        == SubSeq(key, 1, endOfKind - 1)
    IN  IF endOfKind = 0 THEN none
        ELSE IF endOfKey = 0 THEN [none EXCEPT !.kind = kind]
        ELSE IF endOfKind + 1 > endOfKey THEN [none EXCEPT !.kind = kind, !.panic = TRUE]
        ELSE IF endOfKeyVal = 0
             THEN [none EXCEPT !.kind = kind, !.k = SubSeq(key, endOfKind + 1, endOfKey - 1)]
        ELSE IF endOfKey + 1 > endOfKeyVal
             THEN [none EXCEPT !.kind = kind, !.k = SubSeq(key, endOfKind + 1, endOfKey - 1),
                               !.panic = TRUE]
        ELSE [kind |-> kind, k |-> SubSeq(key, endOfKind + 1, endOfKey - 1),
              v |-> SubSeq(key, endOfKey + 1, endOfKeyVal - 1), ok |-> TRUE, panic |-> FALSE]

\* the bytes the strings of the codec's callers are made of: the three
\* delimiters and one other byte
CodecChars == {"a", curlyStart, colon, curlyEnd}

\* a call of mkKey, the first call made: last keeps the arguments and the key
\* returned
MkKeyCall(kind, key, val) ==
    /\ last.op = "none"
    /\ last' = [NoCall EXCEPT !.op = "mkKey", !.tags = <<kind, key, val>>,
                              !.key = mkKey(kind, key, val)]
    /\ UNCHANGED <<storage, t, written, given, filled, conc>>

\* a call of parseKey with the key mkKey has just returned: last keeps what it
\* returns, or that it panicked
ParseMadeKeyCall ==
    /\ last.op = "mkKey"
    /\ last' = [last EXCEPT !.op = "parseKey", !.val = parseKey(last.key)]
    /\ UNCHANGED <<storage, t, written, given, filled, conc>>

\* a call of parseKey with any string, the first call made
ParseKeyCall(key) ==
    /\ last.op = "none"
    /\ last' = [NoCall EXCEPT !.op = "parseKey", !.key = key, !.val = parseKey(key)]
    /\ UNCHANGED <<storage, t, written, given, filled, conc>>

----------------------------------------------------------------------------
(* Collection: one kind with a primary key, one additional key, the items  *)
(* its Extractor yields, and a Derivative.                                 *)

Kind == <<"f">>
PkAttr == <<"i">>
NameAttr == <<"n">>
DeriveName == <<"d">>

Ids == {<<"1">>, <<"2">>}
Names == {<<"p">>, <<"q">>}

\* Collection.addIndex (lines 380-393): the attribute name is looked for in
\* c.keys, the secondary indexes
addIndex(c, kind, key, primary, value) ==
    IF \E i \in 1..Len(c.keys) : c.keys[i].key = key
    THEN [c |-> c, ok |-> FALSE]
    ELSE LET idx == [primary |-> primary, kind |-> kind, key |-> key, value |-> value]
         IN  [c |-> IF primary THEN [c EXCEPT !.pk = idx]
                    ELSE [c EXCEPT !.keys = Append(@, idx)],
              ok |-> TRUE]

\* NewCollection(db, Kind, PrimaryKey(PkAttr, id), AdditionalKey(NameAttr, name)):
\* the options are applied to a collection whose pk is the zero index[T]
NewCollection ==
    LET c0 == [pk |-> [primary |-> FALSE, kind |-> <<>>, key |-> <<>>, value |-> "nil"],
               keys |-> <<>>]
        c1 == addIndex(c0, Kind, PkAttr, TRUE, "id").c
    IN  addIndex(c1, Kind, NameAttr, FALSE, "name").c

\* The items of the kind: id is what the primary indexFn yields, name what the
\* additional indexFn yields.  The first id comes under every name, the others
\* under one.
Items ==
    {[type |-> "item", id |-> i, name |-> n] : i \in {<<"1">>}, n \in Names}
    \cup {[type |-> "item", id |-> i, name |-> <<"p">>] : i \in Ids \ {<<"1">>}}

\* What one run of the Extractor hands to load: no item, one item, or one item
\* for each id
Sources ==
    {<<>>} \cup {<<x>> : x \in Items}
           \cup {<<x, y>> : x \in {i \in Items : i.id = <<"1">>},
                            y \in {i \in Items : i.id = <<"2">>}}

\* Collection.pk and Collection.keys as the test configures them
ColPk == [pk |-> TRUE, kind |-> Kind, key |-> PkAttr, ref |-> "id"]
ColKeys == <<[pk |-> FALSE, kind |-> Kind, key |-> NameAttr, ref |-> "name"]>>

\* an indexFn: the strings it passes to keyVal for an item
IndexRef(idx, item) == IF idx.ref = "id" THEN <<item.id>> ELSE <<item.name>>

\* Collection.tagItemWithIndexes: the Tag calls it makes for one item
RECURSIVE tagItemWithIndexes(_, _, _)
tagItemWithIndexes(keys, key, item) ==
    IF keys = <<>> THEN <<>>
    ELSE LET idx == Head(keys)
             vs  == IndexRef(idx, item)
         IN  [i \in 1..Len(vs) |->
                 [op |-> "Tag", key |-> key, tags |-> <<mkKey(idx.kind, idx.key, vs[i])>>]]
             \o tagItemWithIndexes(Tail(keys), key, item)

\* Collection.loadItem: the writer calls it makes for one item under key
loadItem(key, item) ==
    <<[op |-> "Put", key |-> key, val |-> item],
      [op |-> "Tag", key |-> key, tags |-> <<Kind>>]>>
    \o tagItemWithIndexes(ColKeys, key, item)

\* Collection.indexer with fn = loadItem: one call per value the primary
\* indexFn yields for the item
indexerItem(item) ==
    LET vs == IndexRef(ColPk, item)
    IN  IF Len(vs) = 0 THEN <<>> ELSE loadItem(mkKey(Kind, ColPk.key, vs[1]), item)

\* Collection.Load: the writer calls made for the items the Extractor yields
RECURSIVE Load(_)
Load(items) ==
    IF items = <<>> THEN <<>> ELSE indexerItem(Head(items)) \o Load(Tail(items))

\* the callback of a reload that invalidates the kind and leaves the load to
\* a later transaction
InvalidateCallbackInvalidateOnly(items, ord) ==
    <<[op |-> "Invalidate", tags |-> <<Kind>>, ord |-> ord]>>

\* the callback of a reload that forgets to invalidate the kind first
InvalidateCallbackLoadOnly(items, ord) == Load(items)

\* Collection.Invalidate: the callback it hands to Update
InvalidateCallback(items, ord) ==
    <<[op |-> "Invalidate", tags |-> <<Kind>>, ord |-> ord]>> \o Load(items)

\* the key a Derivative stores its result under
DeriveKey(in) ==
    LET vs == IndexRef(ColPk, in)
    IN  IF Len(vs) = 0 THEN <<>>
        ELSE mkKey(Kind \o <<"/">> \o DeriveName, ColPk.key, vs[Len(vs)])

\* the function given to Derive: what it computes from an item, or an error
Compute(in, fails) ==
    IF fails THEN [val |-> Nil, err |-> TRUE]
    ELSE [val |-> [type |-> "derived", from |-> in.name], err |-> FALSE]

\* cacheView.Iter / Get / type assertion as Collection.getter uses them for the
\* primary key
Getter(st, v) ==
    LET r == cacheViewGet(st, mkKey(Kind, ColPk.key, v))
    IN  IF r[2] /\ r[1].type = "item" THEN <<r[1], TRUE>> ELSE <<Nil, FALSE>>

\* Collection.Scan with no filter and a consume that always proceeds: the
\* items consumed
Scan(st) ==
    {st.items[k] : k \in {k \in cacheViewIter(st, Kind) :
                            /\ parseKey(k).ok
                            /\ parseKey(k).k = ColPk.key
                            /\ k \in DOMAIN st.items
                            /\ st.items[k].type = "item"}}

\* Collection.Scan with no filter, the range over the keys of the kind tag
\* visiting them in the order of ord, and a consume that returns false on its
\* stop-th call (never when stop is 0): the items consume was given, in order
RECURSIVE ScanVisit(_, _, _, _)
ScanVisit(st, ks, res, stop) ==
    IF ks = <<>> THEN res
    ELSE LET pk == parseKey(Head(ks))
             r  == cacheViewGet(st, Head(ks))
         IN  IF ~pk.ok \/ pk.k # ColPk.key THEN ScanVisit(st, Tail(ks), res, stop)
             ELSE IF ~r[2] THEN ScanVisit(st, Tail(ks), res, stop)
             ELSE IF r[1].type # "item" THEN ScanVisit(st, Tail(ks), res, stop)
             ELSE IF Len(res) + 1 = stop THEN Append(res, r[1])
             ELSE ScanVisit(st, Tail(ks), Append(res, r[1]), stop)

ScanBy(st, ord, stop) ==
    ScanVisit(st, RangeOrder(cacheViewIter(st, Kind), ord), <<>>, stop)

\* the Getter of an additional key: Iter stops at the first key of the tag
\* that the range visits, in the order of ord
GetterBy(st, attr, v, ord) ==
    LET ks == RangeOrder(cacheViewIter(st, mkKey(Kind, attr, v)), ord)
        r  == IF ks = <<>> THEN <<Nil, FALSE>> ELSE cacheViewGet(st, ks[1])
    IN  IF r[2] /\ r[1].type = "item" THEN <<r[1], TRUE>> ELSE <<Nil, FALSE>>

\* the Query that MapBy returns, with no filters, the range over the keys of
\* the tag visiting them in the order of ord
RECURSIVE MapByVisit(_, _, _)
MapByVisit(st, ks, res) ==
    IF ks = <<>> THEN [res |-> res, err |-> FALSE]
    ELSE IF ~cacheViewGet(st, Head(ks))[2] THEN [res |-> res, err |-> TRUE]
    ELSE IF cacheViewGet(st, Head(ks))[1].type # "item" THEN [res |-> res, err |-> TRUE]
    ELSE MapByVisit(st, Tail(ks), Append(res, cacheViewGet(st, Head(ks))[1]))

MapBy(st, attr, v, ord) ==
    MapByVisit(st, RangeOrder(cacheViewIter(st, mkKey(Kind, attr, v)), ord), <<>>)

\* every key the store can hold for the collection, in one order and in the
\* opposite one: the orders a range over a tag's keys is modelled with
ColOrder ==
    LET ids == <<<<"1">>, <<"2">>>>
    IN  [i \in 1..Len(ids) |-> mkKey(Kind, PkAttr, ids[i])]
        \o [i \in 1..Len(ids) |-> mkKey(Kind \o <<"/">> \o DeriveName, PkAttr, ids[i])]
        \o <<KeyA>>
Reverse(q) == [i \in 1..Len(q) |-> q[Len(q) + 1 - i]]
ColOrders == {ColOrder, Reverse(ColOrder)}

\* What the fill function of a GetOrFill on a key outside the collection
\* returns
ColFills == {[val |-> RawVal(1), err |-> FALSE], [val |-> Nil, err |-> TRUE]}

\* Collection.Invalidate, the Extractor yielding the items src
ColInvalidate(src, ord) ==
    dbUpdate(InvalidateCallback(src, ord), FALSE, [NoCall EXCEPT !.op = "ColInvalidate"])

\* a Derivative of the collection called with the item in.  Only the outputs
\* of Compute are stored under its keys, so the type assertion on the value
\* GetOrFill returns succeeds.
Derivative(in, fails) ==
    dbGetOrFill(DeriveKey(in), Compute(in, fails), <<Kind>>,
                [NoCall EXCEPT !.op = "Derivative", !.key = DeriveKey(in)])

\* the function given to a Derive whose output type is the type of the
\* collection's items: what it computes from an item
ComputeItem(in) == [val |-> [in EXCEPT !.name = DeriveName], err |-> FALSE]

\* the Derivative of such a Derive called with the item in
DerivativeItem(in) ==
    dbGetOrFill(DeriveKey(in), ComputeItem(in), <<Kind>>,
                [NoCall EXCEPT !.op = "Derivative", !.key = DeriveKey(in)])

----------------------------------------------------------------------------
(* Infer: a collection of the sub-items of the base collection's items,    *)
(* loaded by a hook of the base collection and queried by the base item's  *)
(* primary key value.                                                      *)

InferKind == <<"g">>

\* the sub-items: id is what the primary indexFn of the inferred collection
\* yields, ver the rest of the item
SubItems == {[type |-> "sub", id |-> i, ver |-> v] : i \in Ids, v \in 1..NumVals}

\* the lists of sub-items a base item refers to: none, one, or one of each id
SubLists ==
    {<<>>} \cup {<<x>> : x \in SubItems}
           \cup {<<x, y>> : x \in {i \in SubItems : i.id = <<"1">>},
                            y \in {i \in SubItems : i.id = <<"2">>}}

\* the primary key value of a sub-item identifies it: two sub-items of one
\* load that have the same id are the same sub-item
UniqueSubs(l) == \A i, j \in 1..Len(l) : l[i].id = l[j].id => l[i] = l[j]

\* the items of a base collection that has an inference, all of one name
BaseItems ==
    {[type |-> "item", id |-> i, name |-> <<"p">>, subs |-> l] : i \in Ids, l \in SubLists}

\* What one run of the base Extractor hands to load: no item, one item, or
\* one item for each id, which may refer to the same sub-items
BaseSources ==
    {<<>>} \cup {<<x>> : x \in BaseItems}
           \cup {p \in BaseItems \X BaseItems :
                    /\ p[1].id = <<"1">> /\ p[2].id = <<"2">>
                    /\ UniqueSubs(p[1].subs \o p[2].subs)}

\* the primary key the inferred collection is given
InferPk == [pk |-> TRUE, kind |-> InferKind, key |-> PkAttr, ref |-> "id"]

\* Collection.loadItem of the inferred collection, which has no additional
\* key and no inference of its own, followed by the Tag of lines 265-268
RECURSIVE inferItems(_, _)
inferItems(kv, items) ==
    IF items = <<>> THEN <<>>
    ELSE LET item == Head(items)
             key  == mkKey(InferKind, InferPk.key, IndexRef(InferPk, item)[1])
         IN  <<[op |-> "Put", key |-> key, val |-> item],
               [op |-> "Tag", key |-> key, tags |-> <<InferKind>>],
               [op |-> "Tag", key |-> key, tags |-> <<mkKey(Kind, InferKind, kv)>>]>>
             \o inferItems(kv, Tail(items))

\* the inferFn that Infer appends to the base collection, with a mapFn that
\* passes the sink the base item's id and its sub-items
inferFn(base) == inferItems(base.id, base.subs)

\* Collection.loadItem of a base collection with that inference
loadItemInfer(key, item) == loadItem(key, item) \o inferFn(item)

\* Collection.Load of the base collection
RECURSIVE LoadInfer(_)
LoadInfer(items) ==
    IF items = <<>> THEN <<>>
    ELSE loadItemInfer(mkKey(Kind, ColPk.key, IndexRef(ColPk, Head(items))[1]), Head(items))
         \o LoadInfer(Tail(items))

\* Collection.Invalidate of the base collection: the callback it hands to
\* Update
InvalidateCallbackInfer(items, ord) ==
    <<[op |-> "Invalidate", tags |-> <<Kind>>, ord |-> ord]>> \o LoadInfer(items)

\* the Query of the inferred collection with no filters, the range over the
\* keys of the link tag visiting them in the order of ord
RECURSIVE QueryVisit(_, _, _)
QueryVisit(st, ks, res) ==
    IF ks = <<>> THEN [res |-> res, err |-> FALSE]
    ELSE IF ~cacheViewGet(st, Head(ks))[2] THEN [res |-> res, err |-> TRUE]
    ELSE IF cacheViewGet(st, Head(ks))[1].type # "sub" THEN [res |-> res, err |-> TRUE]
    ELSE QueryVisit(st, Tail(ks), Append(res, cacheViewGet(st, Head(ks))[1]))

Query(st, val, ord) ==
    QueryVisit(st, RangeOrder(cacheViewIter(st, mkKey(Kind, InferKind, val)), ord), <<>>)

\* every key the store can hold for the two collections, in one order and in
\* the opposite one
InferOrder ==
    <<mkKey(Kind, PkAttr, <<"1">>), mkKey(Kind, PkAttr, <<"2">>),
      mkKey(InferKind, PkAttr, <<"1">>), mkKey(InferKind, PkAttr, <<"2">>)>>

InferOrders == {InferOrder, [i \in 1..Len(InferOrder) |-> InferOrder[Len(InferOrder) + 1 - i]]}

\* Collection.Invalidate of the base collection, the Extractor yielding src
ColInvalidateInfer(src, ord) ==
    dbUpdate(InvalidateCallbackInfer(src, ord), FALSE, [NoCall EXCEPT !.op = "ColInvalidate"])

----------------------------------------------------------------------------
(* Goroutines, sync.Mutex and sync.RWMutex.  A call is a sequence of steps; *)
(* a step that takes a lock is enabled only when the lock can be taken.     *)

ProcOrder == <<"p1", "p2", "p3">>
Procs == SeqToSet(ProcOrder)

Free == "free"

\* no call in progress
NoJob == [kind |-> "none", ops |-> <<>>, n |-> 0, reads |-> <<>>, got |-> <<>>,
          snap |-> EmptyStorage, seen |-> {}, src |-> <<>>,
          key |-> <<>>, fill |-> [val |-> Nil, err |-> FALSE], tags |-> <<>>,
          val |-> Nil, err |-> FALSE, fills |-> 0, calls |-> 0, returned |-> FALSE]

\* a read lock that waits for the writer lock of Update as well
RWMutexCanRLockAfterUpdate(mu) == mu.writer = Free /\ mu.pending = Free /\ muW = Free

\* sync.RWMutex: RLock returns only while no goroutine holds the write lock
\* and no call of Lock is blocked waiting for it
RWMutexCanRLock(mu) == mu.writer = Free /\ mu.pending = Free

\* a write lock that does not wait for the readers to leave
RWMutexCanLockDespiteReaders(mu) == mu.writer = Free

\* sync.RWMutex: Lock returns only while no goroutine holds the lock at all
RWMutexCanLock(mu) == mu.writer = Free /\ mu.readers = {}

\* a mutex that excludes nobody
MutexCanLockAlways(mu) == TRUE

\* sync.Mutex: Lock returns only while no goroutine holds the lock
MutexCanLock(mu) == mu = Free

\* One read made through a cacheView of the live snapshot: Get and Iter of
\* the store, the primary-key Getter and Scan of the collection.
DoRead(st, rd) ==
    IF rd.op = "Get" THEN [op |-> "Get", found |-> cacheViewGet(st, rd.key)[2],
                           val |-> cacheViewGet(st, rd.key)[1], keys |-> {}]
    ELSE IF rd.op = "Iter" THEN [op |-> "Iter", found |-> TRUE, val |-> Nil,
                                 keys |-> cacheViewIter(st, rd.tag)]
    ELSE IF rd.op = "Getter" THEN [op |-> "Getter", found |-> Getter(st, rd.v)[2],
                                   val |-> Getter(st, rd.v)[1], keys |-> {}]
    ELSE [op |-> "Scan", found |-> TRUE, val |-> Nil, keys |-> Scan(st)]

\* db.View / db.Get / db.Iter, line 696 / 761 / 769: c.muR.RLock()
RLock(p) ==
    /\ pc[p] = "RLock"
    /\ RWMutexCanRLock(muR)
    /\ muR' = [muR EXCEPT !.readers = @ \cup {p}]
    /\ job' = [job EXCEPT ![p].snap = storage, ![p].seen = loaded]
    /\ pc' = [pc EXCEPT ![p] = "read"]
    /\ UNCHANGED <<storage, t, muW, published, loaded, seq>>

\* the body of the view function: its next read of cacheView(c.storage)
Read(p) ==
    /\ pc[p] = "read"
    /\ Len(job[p].got) < Len(job[p].reads)
    /\ job' = [job EXCEPT ![p].got =
                  Append(@, DoRead(storage, job[p].reads[Len(job[p].got) + 1]))]
    /\ UNCHANGED <<storage, t, pc, muW, muR, published, loaded, seq>>

\* a GetOrFill that goes on to Update without releasing the read lock of its
\* fast path
RUnlockAfterUpdate(p) ==
    /\ pc[p] = "read"
    /\ Len(job[p].got) = Len(job[p].reads)
    /\ IF job[p].kind = "GetOrFill"
       THEN IF job[p].got[1].found
            THEN /\ pc' = [pc EXCEPT ![p] = "idle"]
                 /\ job' = [job EXCEPT ![p].val = job[p].got[1].val,
                                       ![p].returned = TRUE]
                 /\ muR' = [muR EXCEPT !.readers = @ \ {p}]
            ELSE /\ pc' = [pc EXCEPT ![p] = "Lock"]
                 /\ UNCHANGED <<job, muR>>
       ELSE /\ pc' = [pc EXCEPT ![p] = "idle"]
            /\ job' = [job EXCEPT ![p] = NoJob]
            /\ muR' = [muR EXCEPT !.readers = @ \ {p}]
    /\ UNCHANGED <<storage, t, muW, published, loaded, seq>>

\* db.View / db.Get / db.Iter, line 698 / 763 / 771: c.muR.RUnlock().  The
\* fast path of GetOrFill goes on to Update when its Get missed.
RUnlock(p) ==
    /\ pc[p] = "read"
    /\ Len(job[p].got) = Len(job[p].reads)
    /\ muR' = [muR EXCEPT !.readers = @ \ {p}]
    /\ IF job[p].kind = "GetOrFill"
       THEN IF job[p].got[1].found
            THEN /\ pc' = [pc EXCEPT ![p] = "idle"]
                 /\ job' = [job EXCEPT ![p].val = job[p].got[1].val,
                                       ![p].returned = TRUE]
            ELSE /\ pc' = [pc EXCEPT ![p] = "Lock"]
                 /\ UNCHANGED job
       ELSE /\ pc' = [pc EXCEPT ![p] = "idle"]
            /\ job' = [job EXCEPT ![p] = NoJob]
    /\ UNCHANGED <<storage, t, muW, published, loaded, seq>>

\* db.Update, lines 704-705: c.muW.Lock(); the origin of the overlay is the
\* live snapshot itself
Lock(p) ==
    /\ pc[p] = "Lock"
    /\ MutexCanLock(muW)
    /\ muW' = p
    /\ pc' = [pc EXCEPT ![p] = "callback"]
    /\ UNCHANGED <<storage, t, job, muR, published, loaded, seq>>

\* db.Update, line 722, for a callback that decides its calls as it goes: the
\* next writer call it makes, on the overlay and against the live snapshot
CallbackCall(p, o) ==
    /\ pc[p] = "callback"
    /\ job[p].kind = "Update"
    /\ job[p].n < MaxOps
    /\ t' = ApplyOp([tx |-> t, written |-> EmptyMap, deleted |-> <<>>], storage, o).tx
    /\ job' = [job EXCEPT ![p].n = @ + 1]
    /\ UNCHANGED <<storage, pc, muW, muR, published, loaded, seq>>

\* db.Update, line 722, for the callback of Collection.Invalidate: the next of
\* the writer calls it makes
CallbackScript(p) ==
    /\ pc[p] = "callback"
    /\ job[p].kind = "ColInvalidate"
    /\ job[p].ops # <<>>
    /\ t' = ApplyOp([tx |-> t, written |-> EmptyMap, deleted |-> <<>>], storage,
                    Head(job[p].ops)).tx
    /\ job' = [job EXCEPT ![p].ops = Tail(@)]
    /\ UNCHANGED <<storage, pc, muW, muR, published, loaded, seq>>

\* db.Update, lines 722-723: the callback returns; the merge follows only when
\* it returned nil
CallbackReturn(p, err) ==
    /\ pc[p] = "callback"
    /\ \/ job[p].kind = "Update"
       \/ job[p].kind = "ColInvalidate" /\ job[p].ops = <<>> /\ ~err
    /\ job' = [job EXCEPT ![p].err = err]
    /\ pc' = [pc EXCEPT ![p] = IF err THEN "clear" ELSE "muR.Lock"]
    /\ UNCHANGED <<storage, t, muW, muR, published, loaded, seq>>

\* db.GetOrFill, lines 792-808: its callback, run under the writer lock
CallbackFill(p) ==
    /\ pc[p] = "callback"
    /\ job[p].kind = "GetOrFill"
    /\ LET r == GetOrFillCallback(t, storage, job[p].key, job[p].fill, job[p].tags)
       IN  /\ t' = r.tx
           /\ job' = [job EXCEPT ![p].val = r.val, ![p].err = r.err,
                                 ![p].fills = IF r.called THEN @ + 1 ELSE @]
           /\ pc' = [pc EXCEPT ![p] = IF r.err THEN "clear" ELSE "muR.Lock"]
    /\ UNCHANGED <<storage, muW, muR, published, loaded, seq>>

\* db.Update, line 724: c.muR.Lock().  The call returns once no goroutine
\* holds the lock; until then it is blocked, which keeps new readers out.
MuRLock(p) ==
    /\ pc[p] = "muR.Lock"
    /\ \/ /\ RWMutexCanLock(muR)
          /\ muR' = [muR EXCEPT !.writer = p, !.pending = Free]
          /\ pc' = [pc EXCEPT ![p] = MergeLoops[1]]
       \/ /\ ~RWMutexCanLock(muR)
          /\ muR.pending = Free
          /\ muR' = [muR EXCEPT !.pending = p]
          /\ UNCHANGED pc
    /\ UNCHANGED <<storage, t, job, muW, published, loaded, seq>>

\* db.Update, lines 725-743: the next loop of the merge
MergeStep(p) ==
    /\ \E i \in 1..Len(MergeLoops) :
          /\ pc[p] = MergeLoops[i]
          /\ storage' = MergeLoop(storage, t, MergeLoops[i])
          /\ pc' = [pc EXCEPT ![p] = IF i < Len(MergeLoops) THEN MergeLoops[i + 1]
                                     ELSE "muR.Unlock"]
    /\ UNCHANGED <<t, job, muW, muR, published, loaded, seq>>

\* db.Update, line 745: c.muR.Unlock(); the merge is complete
MuRUnlock(p) ==
    /\ pc[p] = "muR.Unlock"
    /\ muR' = [muR EXCEPT !.writer = Free]
    /\ published' = storage
    /\ loaded' = (IF job[p].kind = "ColInvalidate" THEN SeqToSet(job[p].src) ELSE loaded)
    /\ pc' = [pc EXCEPT ![p] = "clear"]
    /\ UNCHANGED <<storage, t, job, muW, seq>>

\* db.Update, lines 748-753: the overlay is cleared
Clear(p) ==
    /\ pc[p] = "clear"
    /\ t' = ClearTransaction(t)
    /\ pc' = [pc EXCEPT ![p] = "Unlock"]
    /\ UNCHANGED <<storage, job, muW, muR, published, loaded, seq>>

\* db.Update, lines 755-757: c.muW.Unlock() and the call returns
Unlock(p) ==
    /\ pc[p] = "Unlock"
    /\ muW' = Free
    /\ pc' = [pc EXCEPT ![p] = "idle"]
    /\ job' = [job EXCEPT ![p] = IF job[p].kind = "GetOrFill"
                                 THEN [job[p] EXCEPT !.returned = TRUE]
                                 ELSE NoJob]
    /\ UNCHANGED <<storage, t, muR, published, loaded, seq>>

\* a goroutine calls db.Update
CallUpdate(p) ==
    /\ pc[p] = "idle"
    /\ job' = [job EXCEPT ![p] = [NoJob EXCEPT !.kind = "Update"]]
    /\ pc' = [pc EXCEPT ![p] = "Lock"]
    /\ UNCHANGED <<storage, t, muW, muR, published, loaded, seq>>

\* a goroutine calls db.View with a function that makes the reads rds; db.Get
\* and db.Iter are the views of one read
CallView(p, rds) ==
    /\ pc[p] = "idle"
    /\ job' = [job EXCEPT ![p] = [NoJob EXCEPT !.kind = "View", !.reads = rds]]
    /\ pc' = [pc EXCEPT ![p] = "RLock"]
    /\ UNCHANGED <<storage, t, muW, muR, published, loaded, seq>>

\* a goroutine calls db.GetOrFill: line 787, the fast path is a db.Get
CallGetOrFill(p, key, fill, tags) ==
    /\ pc[p] = "idle"
    /\ job[p].calls < MaxCalls
    /\ job' = [job EXCEPT ![p] = [NoJob EXCEPT !.kind = "GetOrFill", !.key = key,
                                     !.fill = fill, !.tags = tags,
                                     !.reads = <<[op |-> "Get", key |-> key]>>,
                                     !.fills = job[p].fills,
                                     !.calls = job[p].calls + 1]]
    /\ pc' = [pc EXCEPT ![p] = "RLock"]
    /\ UNCHANGED <<storage, t, muW, muR, published, loaded, seq>>

\* a goroutine calls Collection.Invalidate, the Extractor yielding src
CallColInvalidate(p, src, ord) ==
    /\ pc[p] = "idle"
    /\ job' = [job EXCEPT ![p] = [NoJob EXCEPT !.kind = "ColInvalidate", !.src = src,
                                     !.ops = InvalidateCallback(src, ord)]]
    /\ pc' = [pc EXCEPT ![p] = "Lock"]
    /\ UNCHANGED <<storage, t, muW, muR, published, loaded, seq>>

\* the steps every call is made of
Step(p) ==
    \/ RLock(p) \/ Read(p) \/ RUnlock(p)
    \/ Lock(p) \/ MuRLock(p) \/ MergeStep(p) \/ MuRUnlock(p) \/ Clear(p) \/ Unlock(p)

----------------------------------------------------------------------------
(* The store used by one caller at a time.                                 *)

Init ==
    /\ storage = EmptyStorage
    /\ t = EmptyTransaction
    /\ last = NoCall
    /\ written = EmptyMap
    /\ given = EmptyMap
    /\ filled = EmptyMap
    /\ pc = [p \in Procs |-> "idle"]
    /\ job = [p \in Procs |-> NoJob]
    /\ muW = Free
    /\ muR = [writer |-> Free, readers |-> {}, pending |-> Free]
    /\ published = EmptyStorage
    /\ loaded = {}
    /\ col = NewCollection

\* Put, Tag, Invalidate and Update with every callback of up to MaxOps calls
Next ==
    \/ \E k \in Keys, v \in Vals : DbPut(k, v) /\ UNCHANGED <<given, filled, conc>>
    \/ \E k \in Keys, ts \in TagLists(Tags) : DbTag(k, ts) /\ UNCHANGED <<given, filled, conc>>
    \/ \E ts \in TagLists(Tags), o \in Orders : DbInvalidate(ts, o) /\ UNCHANGED <<given, filled, conc>>
    \/ \E ops \in Callbacks, err \in BOOLEAN : DbUpdate(ops, err) /\ UNCHANGED <<given, filled, conc>>

Spec == Init /\ [][Next]_vars

\* Put of one value, Tag with one or two of three tags and Invalidate of one
\* of them; given follows the tags each key was given since it was last
\* reported deleted.
NextTags ==
    \/ \E k \in Keys : DbPut(k, RawVal(1)) /\ UNCHANGED <<given, filled, conc>>
    \/ \E k \in Keys, ts \in TagLists(WideTags) :
          /\ DbTag(k, ts)
          /\ given' = MapSet(given, k, Lookup(given, k) \cup SeqToSet(ts))
          /\ UNCHANGED <<filled, conc>>
    \/ \E tg \in WideTags, o \in Orders :
          /\ DbInvalidate(<<tg>>, o)
          /\ given' = MapDelAll(given, SeqToSet(last'.deleted))
          /\ UNCHANGED <<filled, conc>>

SpecTags == Init /\ [][NextTags]_vars

\* Update with every callback of up to MaxOps calls that returns nil, and
\* Invalidate of one tag; given follows the tags each key was given since it
\* was last reported deleted.
NextRetag ==
    \/ \E ops \in Callbacks :
          /\ DbUpdate(ops, FALSE)
          /\ given' = GivenOps(given, [tx |-> t, written |-> written, deleted |-> <<>>],
                               storage, ops)
          /\ UNCHANGED <<filled, conc>>
    \/ \E tg \in Tags, o \in Orders :
          /\ DbInvalidate(<<tg>>, o)
          /\ given' = MapDelAll(given, SeqToSet(last'.deleted))
          /\ UNCHANGED <<filled, conc>>

SpecRetag == Init /\ [][NextRetag]_vars

\* Put under a key or under the name of a tag, Tag, and Invalidate of one or
\* two tags in use, of a tag given twice and of a tag that is never used
NextInv ==
    \/ \E k \in Keys \cup {TagY} : DbPut(k, RawVal(1)) /\ UNCHANGED <<given, filled, conc>>
    \/ \E k \in Keys, ts \in TagLists(Tags) :
          DbTag(k, ts) /\ UNCHANGED <<given, filled, conc>>
    \/ \E ts \in TagLists(Tags) \cup {<<tg, tg>> : tg \in Tags} \cup {<<TagZ>>},
          o \in Orders :
          DbInvalidate(ts, o) /\ UNCHANGED <<given, filled, conc>>

SpecInv == Init /\ [][NextInv]_vars

\* Put, Invalidate of one tag, and Update with a callback that tags a key
\* after nothing, after a Put or after the invalidation of a tag
NextTouch ==
    \/ \E k \in Keys : DbPut(k, RawVal(1)) /\ UNCHANGED <<given, filled, conc>>
    \/ \E tg \in Tags, o \in Orders :
          DbInvalidate(<<tg>>, o) /\ UNCHANGED <<given, filled, conc>>
    \/ \E pre \in {<<>>}
              \cup {<<[op |-> "Put", key |-> k, val |-> RawVal(1)]>> : k \in Keys}
              \cup {<<[op |-> "Invalidate", tags |-> <<tg>>, ord |-> o]>> :
                        tg \in Tags, o \in Orders},
          k \in Keys, ts \in TagLists(Tags) :
          DbUpdateTagging(pre, k, ts) /\ UNCHANGED <<given, filled, conc>>

SpecTouch == Init /\ [][NextTouch]_vars

\* Put, Invalidate and GetOrFill; filled follows the value GetOrFill stored
\* under each key, until the key is reported deleted.
NextFill ==
    \/ \E k \in Keys, v \in Vals : DbPut(k, v) /\ UNCHANGED <<given, filled, conc>>
    \/ \E ts \in TagLists(Tags), o \in Orders :
          /\ DbInvalidate(ts, o)
          /\ filled' = MapDelAll(filled, SeqToSet(last'.deleted))
          /\ UNCHANGED <<given, conc>>
    \/ \E k \in Keys, f \in Fills, ts \in {<<>>} \cup TagLists(Tags) :
          /\ DbGetOrFill(k, f, ts)
          /\ filled' = (IF last'.called /\ ~last'.err THEN MapSet(filled, k, last'.val) ELSE filled)
          /\ UNCHANGED <<given, conc>>

SpecFill == Init /\ [][NextFill]_vars

\* A collection reloaded from its source, its Derivative, and GetOrFill on a
\* key outside the collection.  filled follows what the Derivative has stored
\* since the last reload, loaded the items the last reload was given.
NextCol ==
    \/ \E src \in Sources, o \in ColOrders :
          /\ ColInvalidate(src, o)
          /\ filled' = EmptyMap
          /\ loaded' = SeqToSet(src)
          /\ UNCHANGED <<given, pc, job, muW, muR, published, col>>
    \/ \E in \in Items, fails \in BOOLEAN :
          /\ Derivative(in, fails)
          /\ filled' = (IF last'.called /\ ~last'.err
                        THEN MapSet(filled, last'.key, last'.val) ELSE filled)
          /\ UNCHANGED <<given, conc>>
    \/ \E f \in ColFills :
          DbGetOrFill(KeyA, f, <<Kind>>) /\ UNCHANGED <<given, filled, conc>>

SpecCol == Init /\ [][NextCol]_vars

\* The key codec called with every string of its bounded universe: mkKey on
\* strings of up to MaxStr bytes, parseKey on strings of up to MaxKey bytes
NextCodec ==
    \/ \E kind, key, val \in SeqsUpTo(CodecChars, MaxStr) : MkKeyCall(kind, key, val)
    \/ ParseMadeKeyCall
    \/ \E key \in SeqsUpTo(CodecChars, MaxKey) : ParseKeyCall(key)

SpecCodec == Init /\ [][NextCodec]_vars

\* A collection reloaded from its source, a Derivative whose output has the
\* type of the items, and GetOrFill on a key outside the collection.
NextScan ==
    \/ \E src \in Sources, o \in ColOrders :
          /\ ColInvalidate(src, o)
          /\ loaded' = SeqToSet(src)
          /\ UNCHANGED <<given, filled, pc, job, muW, muR, published, col>>
    \/ \E in \in Items : DerivativeItem(in) /\ UNCHANGED <<given, filled, conc>>
    \/ \E f \in ColFills :
          DbGetOrFill(KeyA, f, <<Kind>>) /\ UNCHANGED <<given, filled, conc>>

SpecScan == Init /\ [][NextScan]_vars

\* A base collection with an inference, reloaded from its source again and
\* again; loaded follows the items the last reload was given.
NextInfer ==
    \E src \in BaseSources, o \in InferOrders :
        /\ ColInvalidateInfer(src, o)
        /\ loaded' = SeqToSet(src)
        /\ UNCHANGED <<given, filled, pc, job, muW, muR, published, col>>

SpecInfer == Init /\ [][NextInfer]_vars

\* the reads a view function makes under one read lock
ViewReads ==
    {<<[op |-> "Get", key |-> KeyA], [op |-> "Get", key |-> KeyB]>>,
     <<[op |-> "Iter", tag |-> TagX], [op |-> "Get", key |-> KeyA]>>}

\* the writer calls the callbacks of concurrent Updates make
ConcOps ==
    {[op |-> "Put", key |-> k, val |-> RawVal(1)] : k \in Keys}
    \cup {[op |-> "Put", key |-> KeyA, val |-> RawVal(2)],
          [op |-> "Tag", key |-> KeyA, tags |-> <<TagX>>],
          [op |-> "Tag", key |-> KeyB, tags |-> <<TagX>>]}
    \cup {[op |-> "Invalidate", tags |-> <<TagX>>, ord |-> o] : o \in Orders}

\* Update after Update, with every callback of up to MaxOps of these calls,
\* failing or not; last keeps the calls of the callback
NextLeak ==
    \E ops \in SeqsUpTo(ConcOps, MaxOps), err \in BOOLEAN :
        /\ dbUpdate(ops, err, [NoCall EXCEPT !.op = "Update", !.tags = ops])
        /\ UNCHANGED <<given, filled, conc>>

SpecLeak == Init /\ [][NextLeak]_vars

\* Two goroutines that call Update and one that calls View, interleaved step
\* by step.
NextConc ==
    \/ \E p \in {"p1", "p2"} : CallUpdate(p)
    \/ \E p \in {"p1", "p2"}, o \in ConcOps : CallbackCall(p, o)
    \/ \E p \in {"p1", "p2"}, err \in BOOLEAN : CallbackReturn(p, err)
    \/ \E rds \in ViewReads : CallView("p3", rds)
    \/ \E p \in Procs : Step(p)

SpecConc == Init /\ [][NextConc]_vars

\* One goroutine that calls Update and two that call View, interleaved step
\* by step.
NextReaders ==
    \/ CallUpdate("p1")
    \/ \E o \in ConcOps : CallbackCall("p1", o)
    \/ \E err \in BOOLEAN : CallbackReturn("p1", err)
    \/ \E p \in {"p2", "p3"}, rds \in ViewReads : CallView(p, rds)
    \/ \E p \in Procs : Step(p)

SpecReaders == Init /\ [][NextReaders]_vars

\* the fill function of each goroutine: each returns a value of its own
ProcFill ==
    [p \in Procs |-> [val |-> RawVal(CHOOSE i \in 1..Len(ProcOrder) : ProcOrder[i] = p),
                      err |-> FALSE]]

\* Three goroutines that call GetOrFill on one key, each with its own fill
\* function, up to MaxCalls times each, interleaved step by step.
NextFillConc ==
    \/ \E p \in Procs : CallGetOrFill(p, KeyA, ProcFill[p], <<TagX>>)
    \/ \E p \in Procs : CallbackFill(p)
    \/ \E p \in Procs : Step(p)

SpecFillConc == Init /\ [][NextFillConc]_vars

\* One goroutine that calls Update with a callback of Put and Invalidate
\* calls, one that calls GetOrFill up to MaxCalls times with a fill function
\* that returns a value or an error, and one that calls View, interleaved
\* step by step.
NextLive ==
    \/ CallUpdate("p1")
    \/ \E o \in {[op |-> "Put", key |-> KeyA, val |-> RawVal(1)],
                 [op |-> "Invalidate", tags |-> <<TagX>>, ord |-> <<KeyA, KeyB>>]} :
          CallbackCall("p1", o)
    \/ \E err \in BOOLEAN : CallbackReturn("p1", err)
    \/ \E fill \in {[val |-> RawVal(2), err |-> FALSE], [val |-> Nil, err |-> TRUE]} :
          CallGetOrFill("p2", KeyA, fill, <<TagX>>)
    \/ CallbackFill("p2")
    \/ \E rds \in ViewReads : CallView("p3", rds)
    \/ \E p \in Procs : Step(p)

\* The scheduler runs every goroutine that can run; a callback that has been
\* called returns; and a goroutine that waits for a lock which is free again
\* and again gets it (sync.Mutex hands the lock to a starving waiter, and
\* Unlock of sync.RWMutex admits the readers that wait).
SpecLive ==
    /\ Init /\ [][NextLive]_vars
    /\ \A p \in Procs :
          /\ WF_vars(Read(p) \/ RUnlock(p))
          /\ WF_vars(\E err \in BOOLEAN : CallbackReturn(p, err))
          /\ WF_vars(CallbackFill(p))
          /\ WF_vars(MuRLock(p) \/ MergeStep(p) \/ MuRUnlock(p) \/ Clear(p) \/ Unlock(p))
          /\ SF_vars(Lock(p))
          /\ SF_vars(RLock(p))

\* Collection.PrimaryKey / Collection.AdditionalKey / MapBy, and the options
\* of the same names: each registers its index with addIndex.  last keeps the
\* attribute name, whether the index was primary (dirty) and whether addIndex
\* returned false (err).
AddIndexCall(key, primary, value) ==
    LET r == addIndex(col, Kind, key, primary, value)
    IN  /\ col' = r.c
        /\ last' = [NoCall EXCEPT !.op = "addIndex", !.key = key, !.dirty = primary,
                                  !.err = ~r.ok]
        /\ UNCHANGED <<storage, t, written, given, filled, pc, job, muW, muR,
                       published, loaded>>

\* index after index registered on the collection: under the attribute name
\* of the primary index, of the secondary index or a new one, with the indexFn
\* that yields an item's id or the one that yields its name
NextIndex ==
    \E key \in {PkAttr, NameAttr, <<"m">>}, primary \in BOOLEAN, value \in {"id", "name"} :
        AddIndexCall(key, primary, value)

SpecIndex == Init /\ [][NextIndex]_vars

\* the reads of the collection a goroutine makes: Scan, or the primary-key
\* Getter for one id
ColReads ==
    {<<[op |-> "Scan"]>>} \cup {<<[op |-> "Getter", v |-> i]>> : i \in Ids}

\* One goroutine that reloads the collection again and again from a source
\* that yields at least one item, and two that read it, interleaved step by
\* step.
NextColConc ==
    \/ \E src \in Sources \ {<<>>}, o \in ColOrders : CallColInvalidate("p1", src, o)
    \/ CallbackScript("p1")
    \/ CallbackReturn("p1", FALSE)
    \/ \E p \in {"p2", "p3"}, rds \in ColReads : CallView(p, rds)
    \/ \E p \in Procs : Step(p)

SpecColConc == Init /\ [][NextColConc]_vars

----------------------------------------------------------------------------
(* Atomicity of Update                                                     *)

\* C1: an Update whose callback made Put/Tag/Invalidate calls and then returned
\* an error leaves the live snapshot (items, key->tags, tag->keys) exactly as
\* it was before the call.
C1_UpdateErrorLeavesSnapshot ==
    [][(last'.op = "Update" /\ last'.err) => storage' = storage]_vars

\* an Update has returned an error after its callback changed the overlay of
\* a store that holds items and tags
C1_Witness ==
    /\ last.op = "Update" /\ last.err /\ last.dirty
    /\ storage.items # EmptyMap /\ storage.tagToKeys # EmptyMap

\* C3: once a Put of v under k has been published (by db.Put or by an Update
\* that returned nil), Get(k) returns (v, true) for the last such v, until a
\* later write to k or an invalidation that reports k deleted.
C3_ReadAfterWrite ==
    \A k \in Keys : k \in DOMAIN written => cacheViewGet(storage, k) = <<written[k], TRUE>>

\* an Update that deleted a tagged key and wrote it again has returned nil
C3_Witness ==
    /\ last.op = "Update" /\ ~last.err /\ last.dirty
    /\ KeyA \in DOMAIN written /\ written[KeyA] = RawVal(2)
    /\ TagX \notin DOMAIN storage.tagToKeys /\ KeyA \in DOMAIN storage.keyToTags
    /\ TagX \in storage.keyToTags[KeyA]

----------------------------------------------------------------------------
(* Tags                                                                    *)

\* C4: if key k holds a value and has been tagged with {t1, t2}, then after
\* Invalidate(t1) returns Get(k) reports not-found and Iter(t1) visits no key.
C4_TagCascade ==
    [][\A k \in Keys, t1 \in WideTags, t2 \in WideTags :
          (/\ t1 # t2
           /\ last'.op = "Invalidate" /\ last'.tags = <<t1>>
           /\ k \in DOMAIN storage.items
           /\ {t1, t2} \subseteq Lookup(given, k))
          => (/\ ~cacheViewGet(storage', k)[2]
              /\ cacheViewIter(storage', t1) = {})]_vars

\* C9: in the live snapshot after every operation, tag t is in keyToTags[k]
\* if and only if key k is in tagToKeys[t].
C9_BidirectionalConsistency ==
    \A k \in Keys, tg \in Tags :
        (tg \in Lookup(storage.keyToTags, k)) <=> (k \in Lookup(storage.tagToKeys, tg))

----------------------------------------------------------------------------
(* GetOrFill                                                               *)

\* C6 as stated: once GetOrFill has stored v under k, every later
\* GetOrFill(k, fill') returns v without invoking fill' and without changing
\* the store, for as long as no Invalidate has deleted k.
C6_FilledValueReturnedUntilInvalidated ==
    [][\A k \in Keys :
          (last'.op = "GetOrFill" /\ last'.key = k /\ k \in DOMAIN filled)
          => (last'.val = filled[k] /\ ~last'.called /\ storage' = storage)]_vars

\* C6 as amended: once GetOrFill has stored v under k, every later
\* GetOrFill(k, fill') returns v without invoking fill' and without changing
\* the store, for as long as no Invalidate has deleted k and no later Put has
\* written another value under k.
C6_FilledValueReturnedUntilInvalidatedOrPut ==
    [][\A k \in Keys :
          (/\ last'.op = "GetOrFill" /\ last'.key = k
           /\ k \in DOMAIN filled /\ k \in DOMAIN written /\ written[k] = filled[k])
          => (last'.val = filled[k] /\ ~last'.called /\ ~last'.err /\ storage' = storage)]_vars

\* a GetOrFill on a key that an earlier GetOrFill filled has returned the
\* filled value without calling its fill function
C6_Witness ==
    /\ last.op = "GetOrFill" /\ ~last.called
    /\ last.key \in DOMAIN filled /\ last.val = filled[last.key]
    /\ cacheViewGet(storage, last.key) = <<last.val, TRUE>>

\* C7: when the fill function of GetOrFill, called directly or through a
\* Derivative, returns an error, the call returns the error and leaves the live
\* snapshot as it was with the key absent; and a GetOrFill on a key that is
\* absent, as it is after such a failure, invokes its fill function.
C7_FillErrorStoresNothing ==
    [][(last'.op \in {"GetOrFill", "Derivative"}) =>
          /\ last'.fillErr =>
                (last'.err /\ storage' = storage /\ last'.key \notin DOMAIN storage'.items)
          /\ (last.fillErr /\ last'.key = last.key) => last'.called
          /\ last'.key \notin DOMAIN storage.items => last'.called]_vars

\* a Derivative whose compute function failed has returned the error while
\* the collection and another Derivative result are in the store
C7_Witness ==
    /\ last.op = "Derivative" /\ last.fillErr /\ last.err
    /\ last.key \notin DOMAIN storage.items
    /\ Kind \in DOMAIN storage.tagToKeys
    /\ filled # EmptyMap

----------------------------------------------------------------------------
(* Collection                                                              *)

\* C10 as stated: for one primary key value the compute function of a
\* Derivative runs at most once between two reloads of the collection; so of
\* two calls for the same value with no reload between them, the second does
\* not run it if the first did.
C10_ComputeRunsAtMostOncePerEpoch ==
    [][(/\ last.op = "Derivative" /\ last.called
        /\ last'.op = "Derivative" /\ last'.key = last.key) => ~last'.called]_vars

\* C10 as amended: between two reloads of the collection, once compute has
\* succeeded for a primary key value every further call for it returns the
\* cached result without running compute, whatever the fields of the item
\* passed; a call for a value with no result cached in this epoch (none yet,
\* or only failed runs, or the first call after a reload) runs compute.
C10_ComputeSucceedsAtMostOncePerEpoch ==
    [][(last'.op = "Derivative") =>
          /\ last'.key \in DOMAIN filled =>
                (~last'.called /\ ~last'.err /\ last'.val = filled[last'.key])
          /\ last'.key \notin DOMAIN filled => last'.called]_vars

\* a Derivative has answered from the cache in an epoch that follows a reload
\* of a loaded collection
C10_Witness ==
    /\ last.op = "Derivative" /\ ~last.called
    /\ last.key \in DOMAIN filled /\ last.val = filled[last.key]
    /\ Scan(storage) # {}

----------------------------------------------------------------------------
(* Concurrent readers and writers                                          *)

\* C2: a View, Get or Iter that runs concurrently with an Update never sees a
\* partially merged state: while a reader holds the read lock the live
\* snapshot is the one it locked, which a completed merge (or construction)
\* left, and everything it has read comes from that snapshot; the live snapshot
\* is not modified while an Update callback runs; and no reader holds the read
\* lock while the merge executes.
C2_SnapshotIsolation ==
    /\ \A p \in Procs : pc[p] = "read" =>
          /\ storage = job[p].snap
          /\ job[p].snap = published
          /\ \A i \in 1..Len(job[p].got) : job[p].got[i] = DoRead(job[p].snap, job[p].reads[i])
    /\ \A p \in Procs : pc[p] = "callback" => storage = published
    /\ (\E p \in Procs : pc[p] \in SeqToSet(MergeLoops) \cup {"muR.Unlock"}) => muR.readers = {}

\* a reader has read a key under the read lock while an Update, whose callback
\* has deleted that key and written another in its overlay, waits to merge
C2_Witness ==
    /\ pc["p3"] = "read" /\ Len(job["p3"].got) = 1
    /\ job["p3"].got[1].op = "Get" /\ job["p3"].got[1].found
    /\ \E p \in Procs : pc[p] = "muR.Lock"
    /\ KeyA \in DOMAIN t.deletions.items /\ KeyB \in DOMAIN t.additions.items

\* the number of times the fill functions have been invoked
RECURSIVE SumFills(_)
SumFills(ps) ==
    IF ps = {} THEN 0
    ELSE LET p == CHOOSE q \in ps : TRUE IN job[p].fills + SumFills(ps \ {p})

\* C5: for any interleaving of concurrent GetOrFill calls on the same absent
\* key with distinct fill functions, at most one fill function is invoked, and
\* once a call has returned exactly one has been and its result is stored
\* under the key; every call, the later ones included, returns that value.
C5_AtMostOnceFill ==
    /\ SumFills(Procs) <= 1
    /\ \A p \in Procs : job[p].returned =>
          /\ SumFills(Procs) = 1
          /\ ~job[p].err
          /\ cacheViewGet(storage, KeyA) = <<job[p].val, TRUE>>
          /\ \E q \in Procs : job[q].fills = 1 /\ job[p].val = ProcFill[q].val

\* two goroutines missed the key on the fast path; one has filled it and
\* returned, the other has returned the same value without filling, and a
\* third has returned it from the fast path of a later call
C5_Witness ==
    /\ \A p \in Procs : job[p].returned /\ pc[p] = "idle"
    /\ job["p1"].fills = 0 /\ job["p2"].fills = 1 /\ job["p3"].fills = 0
    /\ job["p1"].val = ProcFill["p2"].val
    /\ job["p3"].calls = 2

\* what the primary-key Getter answers for id v when the collection holds
\* exactly the items its
GetterOf(its, v) ==
    IF \E x \in its : x.id = v
    THEN [op |-> "Getter", found |-> TRUE, val |-> CHOOSE x \in its : x.id = v, keys |-> {}]
    ELSE [op |-> "Getter", found |-> FALSE, val |-> Nil, keys |-> {}]

\* C8: Collection.Invalidate deletes and reloads the kind in one transaction:
\* what a reader gets, whatever the reload in flight is doing, is the output
\* of one whole load, the last one whose merge completed before the reader
\* took the read lock.  Scan yields exactly the items of that load (never none
\* once the kind was loaded, never a mixture of two loads) and the primary-key
\* Getter finds exactly its items.
C8_ReloadIsAtomic ==
    \A p \in Procs : \A i \in 1..Len(job[p].got) :
        /\ job[p].got[i].op = "Scan" =>
              (job[p].got[i].keys = job[p].seen /\ (job[p].seen # {} => job[p].got[i].keys # {}))
        /\ job[p].got[i].op = "Getter" =>
              job[p].got[i] = GetterOf(job[p].seen, job[p].reads[i].v)

\* a reader has scanned the whole of the previous load while a reload that
\* has deleted the kind in its overlay and yields other items is in flight
C8_Witness ==
    /\ pc["p2"] = "read" /\ Len(job["p2"].got) = 1
    /\ job["p2"].got[1].op = "Scan" /\ Cardinality(job["p2"].got[1].keys) = 2
    /\ pc["p1"] \in {"callback", "muR.Lock"} /\ Kind \in DOMAIN t.deletions.tagToKeys
    /\ SeqToSet(job["p1"].src) \cap loaded = {}

----------------------------------------------------------------------------
(* What the collection answers after its reloads                           *)

\* C11: after Collection.Invalidate has returned, the primary-key Getter
\* called with v finds an item if and only if the Extractor yielded one with
\* primary key value v during the latest reload, and the item found is the
\* one yielded; an item of an earlier load that the latest did not yield is
\* not found.
C11_GetterReflectsLatestLoad ==
    \A v \in Ids : DoRead(storage, [op |-> "Getter", v |-> v]) = GetterOf(loaded, v)

\* the collection was reloaded with one item after a load that had yielded
\* another one, whose key has left its traces in the tag maps
C11_Witness ==
    /\ last.op = "ColInvalidate"
    /\ Cardinality(loaded) = 1
    /\ \E v \in Ids :
          /\ mkKey(Kind, PkAttr, v) \in DOMAIN storage.keyToTags
          /\ ~Getter(storage, v)[2]
    /\ \E v \in Ids : Getter(storage, v)[2]

\* C12: after the base collection's Invalidate has returned, Query(key) on
\* the inferred collection returns, with no error, exactly the items that
\* mapFn passed to the sink under key during that load; a sub-item that the
\* base item no longer refers to is no longer returned.
C12_QueryReflectsLatestLoad ==
    \A v \in Ids, o \in InferOrders :
        LET q == Query(storage, v, o)
        IN  /\ ~q.err
            /\ SeqToSet(q.res) = UNION {SeqToSet(b.subs) : b \in {x \in loaded : x.id = v}}

\* C13: after any sequence of reloads, the Query that MapBy returns, called
\* with v and no filters, returns without error exactly the items of the
\* latest load for which the attribute is v.
C13_MapByReflectsLatestLoad ==
    \A v \in Names, o \in ColOrders :
        LET q == MapBy(storage, NameAttr, v, o)
        IN  /\ ~q.err
            /\ SeqToSet(q.res) = {x \in loaded : x.name = v}

\* C14: after any sequence of reloads, the Getter of an additional key called
\* with v finds only an item of the latest load whose attribute is v, and
\* finds one whenever there is one.
C14_SecondaryGetterReflectsLatestLoad ==
    \A v \in Names, o \in ColOrders :
        LET g == GetterBy(storage, NameAttr, v, o)
        IN  /\ g[2] => (g[1] \in loaded /\ g[1].name = v)
            /\ (\E x \in loaded : x.name = v) => g[2]

\* C15: Scan with no filters gives consume exactly the items of the latest
\* load, each once, whatever else is bound to the kind tag, and visits nothing
\* after consume has returned false.
C15_ScanGivesTheCollection ==
    \A o \in ColOrders, stop \in 0..2 :
        LET s == ScanBy(storage, o, stop)
        IN  /\ SeqToSet(s) \subseteq loaded
            /\ Cardinality(SeqToSet(s)) = Len(s)
            /\ (stop = 0) => (SeqToSet(s) = loaded)
            /\ (stop > 0) => (Len(s) = IF Cardinality(loaded) < stop
                                       THEN Cardinality(loaded) ELSE stop)

----------------------------------------------------------------------------
(* Tags and the keys bound to them                                         *)

\* C16: Iter(tag, visit) visits every key that holds a value and was tagged
\* with tag since it was last deleted, each once and with a getter that
\* returns its value, whatever other tags were invalidated; it visits nothing
\* after visit has returned false.
C16_IterVisitsTaggedKeys ==
    \A tg \in WideTags, o \in Orders, stop \in 0..2 :
        LET vis  == IterVisits(storage, tg, o, stop)
            want == {k \in DOMAIN storage.items : tg \in Lookup(given, k)}
        IN  /\ Cardinality(SeqToSet(vis)) = Len(vis)
            /\ (stop = 0) => (want \subseteq SeqToSet(vis))
            /\ (stop > 0) => (Len(vis) <= stop)
            /\ \A k \in want \cap SeqToSet(vis) :
                  cacheViewGet(storage, k) = <<storage.items[k], TRUE>>

\* C17: after key k has been given a value and tagged with {t1, t2},
\* Invalidate(t2) leaves k retrievable by Get and Iter(t1) still visits k.
C17_CrossTagIndependence ==
    [][\A k \in Keys, t1 \in WideTags, t2 \in WideTags :
          (/\ t1 # t2
           /\ last'.op = "Invalidate" /\ last'.tags = <<t2>>
           /\ k \in DOMAIN storage.items
           /\ {t1, t2} \subseteq Lookup(given, k))
          => (/\ cacheViewGet(storage', k)[2]
              /\ k \in cacheViewIter(storage', t1))]_vars

\* C17, as the code has it: after key k has been given a value and tagged
\* with {t1, t2}, an Invalidate(t2) called while Iter(t2) visits k deletes k:
\* Get(k) reports not-found and Iter(t1) no longer visits k.
C17_InvalidateOfOneTagDeletesKey ==
    [][\A k \in Keys, t1 \in WideTags, t2 \in WideTags :
          (/\ t1 # t2
           /\ last'.op = "Invalidate" /\ last'.tags = <<t2>>
           /\ k \in DOMAIN storage.items
           /\ {t1, t2} \subseteq Lookup(given, k)
           /\ k \in cacheViewIter(storage, t2))
          => (/\ ~cacheViewGet(storage', k)[2]
              /\ k \notin cacheViewIter(storage', t1)
              /\ k \in SeqToSet(last'.deleted))]_vars

\* Invalidate of one tag has just deleted a key that held a value and carried
\* that tag and another one, while the other key keeps its value
C17_Witness ==
    /\ last.op = "Invalidate" /\ Len(last.tags) = 1
    /\ KeyA \in SeqToSet(last.deleted)
    /\ ~cacheViewGet(storage, KeyA)[2]
    /\ KeyA \in DOMAIN storage.keyToTags
    /\ last.tags[1] \in storage.keyToTags[KeyA]
    /\ Cardinality(storage.keyToTags[KeyA]) >= 2
    /\ cacheViewGet(storage, KeyB)[2]

\* C18: a key that an invalidation deleted and that was then given a value
\* again and tagged only with new tags stays retrievable, with its new value,
\* when a tag it carried before the deletion is invalidated.  keyToTags keeps
\* the tags of a deleted key, so it tells which tags the key carried before.
C18_RecreatedKeyForgetsOldTags ==
    [][\A k \in Keys, tg \in WideTags :
          (/\ last'.op = "Invalidate" /\ last'.tags = <<tg>>
           /\ k \in DOMAIN storage.items
           /\ tg \in Lookup(storage.keyToTags, k)
           /\ tg \notin Lookup(given, k))
          => cacheViewGet(storage', k) = <<storage.items[k], TRUE>>]_vars

----------------------------------------------------------------------------
(* The two locks                                                           *)

\* C19: at most one Update callback executes at a time, and the overlay is
\* changed only by the Update that holds the writer lock, between its Lock and
\* its Unlock.
C19_WritersSerialized ==
    [][LET inUpdate(q) == {p \in Procs : q[p] \in {"callback", "muR.Lock", "muR.Unlock",
                                                  "clear", "Unlock"} \cup SeqToSet(MergeLoops)}
       IN  /\ Cardinality(inUpdate(pc')) <= 1
           /\ \A p \in inUpdate(pc') : muW' = p
           /\ (t' # t) => (muW # Free /\ muW' = muW /\ pc[muW] \in {"callback", "clear"})
           /\ (muW' = Free) => (t' = EmptyTransaction)]_vars

\* an Update runs its callback on an overlay it has written to, while the
\* other Update waits for the writer lock
C19_Witness ==
    /\ pc["p1"] = "callback" /\ muW = "p1" /\ job["p1"].n >= 1
    /\ t # EmptyTransaction
    /\ pc["p2"] = "Lock"

\* C20: a Get, View or Iter called while an Update callback executes takes
\* the read lock and completes without waiting; a reader waits only while the
\* merge of an Update holds the exclusive lock.
C20_ReadersWaitOnlyWhileMergeHoldsLock ==
    \A r \in Procs :
        /\ (pc[r] = "RLock" /\ \E w \in Procs : pc[w] = "callback") => ENABLED RLock(r)
        /\ (pc[r] = "RLock") =>
              \/ ENABLED RLock(r)
              \/ \E w \in Procs : /\ pc[w] \in SeqToSet(MergeLoops) \cup {"muR.Unlock"}
                                  /\ muR.writer = w
        /\ (pc[r] = "read") => ENABLED (Read(r) \/ RUnlock(r))

\* C20, as the code has it: a Get, View or Iter called while an Update
\* callback executes takes the read lock and completes without waiting; a
\* reader waits only once the callback of an Update has returned and the
\* Update is blocked in muR.Lock() behind earlier readers, or holds the
\* exclusive lock for its merge.
C20_ReadersWaitOnlyForMergeLock ==
    \A r \in Procs :
        /\ (pc[r] = "RLock" /\ \E w \in Procs : pc[w] = "callback") => ENABLED RLock(r)
        /\ (pc[r] = "RLock") =>
              \/ ENABLED RLock(r)
              \/ \E w \in Procs : /\ pc[w] = "muR.Lock"
                                  /\ muR.pending = w
              \/ \E w \in Procs : /\ pc[w] \in SeqToSet(MergeLoops) \cup {"muR.Unlock"}
                                  /\ muR.writer = w
        /\ (pc[r] = "read") => ENABLED (Read(r) \/ RUnlock(r))

\* while the callback of an Update works on an overlay it has written to, one
\* reader is in the middle of its reads and another can take the read lock
C20_Witness ==
    /\ pc["p1"] = "callback" /\ job["p1"].n >= 1 /\ t # EmptyTransaction
    /\ pc["p2"] = "RLock" /\ ENABLED RLock("p2")
    /\ pc["p3"] = "read" /\ Len(job["p3"].got) = 1

----------------------------------------------------------------------------
(* The key codec                                                           *)

\* C21: for all (kind, attr, val), parseKey of the key mkKey makes of them
\* returns (kind, attr, val, true).
C21_RoundTrip ==
    (last.op = "parseKey" /\ last.tags # <<>>) =>
        last.val = [kind |-> last.tags[1], k |-> last.tags[2], v |-> last.tags[3],
                    ok |-> TRUE, panic |-> FALSE]

\* C21, as the code has it: for all (kind, attr, val) in which no delimiter
\* occurs, parseKey of the key mkKey makes of them returns
\* (kind, attr, val, true).
C21_RoundTripWithoutDelimiters ==
    (/\ last.op = "parseKey" /\ last.tags # <<>>
     /\ \A i \in 1..3 : SeqToSet(last.tags[i]) \cap {curlyStart, colon, curlyEnd} = {})
    => last.val = [kind |-> last.tags[1], k |-> last.tags[2], v |-> last.tags[3],
                   ok |-> TRUE, panic |-> FALSE]

\* a key made of a kind, an attribute and a value of the longest kind, none
\* with a delimiter, has been parsed
C21_Witness ==
    /\ last.op = "parseKey" /\ Len(last.tags) = 3
    /\ \A i \in 1..3 : /\ Len(last.tags[i]) = MaxStr
                       /\ SeqToSet(last.tags[i]) \cap {curlyStart, colon, curlyEnd} = {}
    /\ last.val.ok /\ last.val.kind = last.tags[1]

\* C22: for every string parseKey returns normally, with ok false whenever
\* the string does not hold "{", ":" and "}" in that order.
C22_ParseKeyIsTotal ==
    (last.op = "parseKey") =>
        /\ ~last.val.panic
        /\ (~\E i, j, k \in 1..Len(last.key) :
                /\ i < j /\ j < k
                /\ last.key[i] = curlyStart /\ last.key[j] = colon /\ last.key[k] = curlyEnd)
           => ~last.val.ok

----------------------------------------------------------------------------
(* The overlay, read and written inside an Update                          *)

\* C23: inside an Update, Get(key) on the transaction reports a key present in
\* deletions as not found, else returns the value additions holds for it,
\* else returns what the origin has for it.
C23_OverlayPrecedence ==
    \A p \in Procs : (pc[p] = "callback") =>
        \A k \in Keys :
            transactionGet(t, storage, k) =
                IF k \in DOMAIN t.deletions.items THEN <<Nil, FALSE>>
                ELSE IF k \in DOMAIN t.additions.items THEN <<t.additions.items[k], TRUE>>
                ELSE cacheViewGet(storage, k)

\* C24: inside an Update, Iter(tag, visit) on the transaction returns
\* normally and visits exactly the keys of the origin's set of the tag and of
\* the keys added to it that the transaction has not deleted, and none when
\* the tag itself was deleted.
C24_OverlayIter ==
    \A p \in Procs : (pc[p] = "callback") =>
        \A tg \in Tags :
            LET r == transactionIter(t, storage, tg)
            IN  /\ ~r.panic
                /\ r.keys = IF tg \in DOMAIN t.deletions.tagToKeys THEN {}
                            ELSE (Lookup(storage.tagToKeys, tg)
                                  \cup Lookup(t.additions.tagToKeys, tg))
                                 \ DOMAIN t.deletions.items

\* C25: when a transaction tags a key with a tag that has members in the
\* origin snapshot, none of them deleted in the transaction, then after the
\* merge the key set of the tag is the origin's set plus the key, and the tag
\* set of the key is its origin tag set plus the new tags.
C25_CopyOnFirstTouch ==
    [][(last'.op = "Update" /\ last'.tags # <<>>) =>
         \A tg \in SeqToSet(last'.tags) :
            (/\ Lookup(storage.tagToKeys, tg) # {}
             /\ Lookup(storage.tagToKeys, tg) \cap SeqToSet(last'.deleted) = {})
            => (/\ Lookup(storage'.tagToKeys, tg) = storage.tagToKeys[tg] \cup {last'.key}
                /\ Lookup(storage'.keyToTags, last'.key)
                      = Lookup(storage.keyToTags, last'.key) \cup SeqToSet(last'.tags))]_vars

\* a transaction has tagged a key that held a value with a tag that had
\* another member, which holds a value too, and the set now has both keys
C25_Witness ==
    /\ last.op = "Update" /\ Len(last.tags) = 1 /\ last.deleted = <<>>
    /\ storage.tagToKeys[last.tags[1]] = Keys
    /\ Keys \subseteq DOMAIN storage.items
    /\ \E tg \in Tags \ SeqToSet(last.tags) :
          /\ tg \in storage.keyToTags[last.key]
          /\ Lookup(storage.tagToKeys, tg) = {last.key}

\* C26: when a transaction has invalidated a tag whose key set holds k and
\* has afterwards Put k with value v, Get(k) inside the transaction returns
\* (v, true), and so does Get(k) once the merge is done.
C26_AdditionWinsOverDeletion ==
    \A p \in Procs, k \in Keys :
        (k \in DOMAIN t.deletions.items /\ k \in DOMAIN t.additions.items) =>
            /\ (pc[p] = "callback") =>
                  transactionGet(t, storage, k) = <<t.additions.items[k], TRUE>>
            /\ (pc[p] = "muR.Unlock") =>
                  cacheViewGet(storage, k) = <<t.additions.items[k], TRUE>>

\* the merge of an Update is done whose callback deleted a key that held a
\* value and then Put another value under it
C26_Witness ==
    /\ pc["p1"] = "muR.Unlock"
    /\ KeyA \in DOMAIN t.deletions.items /\ KeyA \in DOMAIN t.additions.items
    /\ cacheViewGet(published, KeyA) = <<RawVal(1), TRUE>>
    /\ cacheViewGet(storage, KeyA) = <<RawVal(2), TRUE>>

----------------------------------------------------------------------------
(* What Invalidate deletes and what it leaves                              *)

\* C27: Invalidate(t) leaves every key that holds a value and is not in the
\* key set of t with its value, with its tag set, and visited by Iter under
\* each tag it is bound to.
C27_InvalidateFrame ==
    [][\A tg \in WideTags :
          (last'.op = "Invalidate" /\ last'.tags = <<tg>>) =>
             \A k \in (DOMAIN storage.items) \ Lookup(storage.tagToKeys, tg) :
                /\ cacheViewGet(storage', k) = cacheViewGet(storage, k)
                /\ Lookup(storage'.keyToTags, k) = Lookup(storage.keyToTags, k)
                /\ \A tg2 \in WideTags :
                      (k \in cacheViewIter(storage, tg2)) => (k \in cacheViewIter(storage', tg2))]_vars

\* C28: Invalidate of the base kind deletes every link an inference has
\* tagged: after a reload the link tag of a base item's key value binds the keys
\* of the sub-items that the base item of the latest load refers to, and no
\* other key.
C28_BaseInvalidateDeletesLinks ==
    \A v \in Ids :
        cacheViewIter(storage, mkKey(Kind, InferKind, v)) =
            {mkKey(InferKind, InferPk.key, s.id) :
                s \in UNION {SeqToSet(b.subs) : b \in {x \in loaded : x.id = v}}}

\* C29: the list Invalidate returns has no duplicates, every entry of it is
\* not found afterwards, every key the call has deleted is in it, and each of
\* the given tags that had a key set is not found as a key afterwards.
C29_InvalidateReturnsDeleted ==
    [][(last'.op = "Invalidate") =>
          /\ Cardinality(SeqToSet(last'.deleted)) = Len(last'.deleted)
          /\ \A e \in SeqToSet(last'.deleted) : ~cacheViewGet(storage', e)[2]
          /\ (DOMAIN storage.items) \ (DOMAIN storage'.items) \subseteq SeqToSet(last'.deleted)
          /\ \A tg \in SeqToSet(last'.tags) :
                (tg \in DOMAIN storage.tagToKeys) => ~cacheViewGet(storage', tg)[2]]_vars

\* C30: Invalidate of tags that have no key set deletes nothing, returns an
\* empty list and leaves the live snapshot as it was; and a tag given a second
\* time in one call, its key set deleted by then, adds nothing to what the
\* call does with it given once.
C30_InvalidateWithoutKeySetIsNoOp ==
    [][(last'.op = "Invalidate") =>
          /\ (\A tg \in SeqToSet(last'.tags) : tg \notin DOMAIN storage.tagToKeys)
                => (storage' = storage /\ last'.deleted = <<>>)
          /\ \A tg \in Tags : (last'.tags = <<tg, tg>>) =>
                \E o \in Orders :
                    LET once == transactionInvalidate(EmptyTransaction, storage, <<tg>>, o)
                    IN  /\ storage' = Merge(storage, once.tx, FALSE)
                        /\ last'.deleted = once.deleted]_vars

\* Invalidate of a tag that is not in use has returned an empty list while
\* both keys hold a value and are bound to another tag
C30_Witness ==
    /\ last.op = "Invalidate" /\ last.tags = <<TagZ>> /\ last.deleted = <<>>
    /\ Keys \subseteq DOMAIN storage.items
    /\ \E tg \in Tags : Lookup(storage.tagToKeys, tg) = Keys

\* C31: when the callback of an Update begins, the additions and deletions of
\* the overlay are empty; an Update whose callback returned an error leaves the
\* live snapshot as it was, and an Update whose callback returned nil changes
\* it by the calls of its own callback alone, whatever Updates failed before.
C31_OverlayNeverLeaks ==
    [][(last'.op = "Update") =>
          /\ t = EmptyTransaction
          /\ storage' =
                IF last'.err THEN storage
                ELSE Merge(storage,
                           RunOps([tx |-> EmptyTransaction, written |-> EmptyMap,
                                   deleted |-> <<>>], storage, last'.tags).tx,
                           FALSE)]_vars

\* an Update whose callback put the second value under a key and returned an
\* error has returned, and the key still holds the first value
C31_Witness ==
    /\ last.op = "Update" /\ last.err /\ last.dirty
    /\ \E i \in 1..Len(last.tags) :
          last.tags[i] = [op |-> "Put", key |-> KeyA, val |-> RawVal(2)]
    /\ cacheViewGet(storage, KeyA) = <<RawVal(1), TRUE>>
    /\ t = EmptyTransaction

\* C32: a goroutine takes the read lock for writing only while it holds the
\* writer lock and holds the read lock for reading only while it does not;
\* while a call is in progress some goroutine can take a step; and under fair
\* scheduling every call in progress returns, its goroutine holding neither
\* lock.
C32_LockProgress ==
    /\ [](\A p \in Procs :
            /\ (muR.writer = p \/ muR.pending = p) => muW = p
            /\ p \in muR.readers => muW # p)
    /\ []((\E p \in Procs : pc[p] # "idle") => ENABLED NextLive)
    /\ \A p \in Procs :
          (pc[p] # "idle") ~>
              (/\ pc[p] = "idle"
               /\ muW # p /\ muR.writer # p /\ muR.pending # p
               /\ p \notin muR.readers)

\* the Update of GetOrFill waits for the writer lock, which another Update
\* holds while it waits for a reader to leave
C32_Witness ==
    /\ pc["p2"] = "Lock" /\ muW = "p1"
    /\ pc["p1"] = "muR.Lock" /\ muR.pending = "p1"
    /\ muR.readers = {"p3"}

\* C33: registering an index under an attribute name that the primary index
\* or a secondary index of the collection already has returns false and
\* leaves the primary index and the list of secondary indexes as they were.
C33_DuplicateIndexIsNoOp ==
    [][(/\ last'.op = "addIndex"
        /\ \/ last'.key = col.pk.key
           \/ \E i \in 1..Len(col.keys) : col.keys[i].key = last'.key)
       => (col' = col /\ last'.err)]_vars

====
